---------------------------- MODULE Spec2Model ----------------------------
(***************************************************************************)
(* A model of examples/bert.rs: the byte-to-float converter (to_f32), the  *)
(* label lookup (get_label), the model assembler (the from_tensors family) *)
(* and the driver (run, main).                                             *)
(*                                                                         *)
(* Values that Rust code can fail to produce are records with a tag:       *)
(* "Ok"/"Err" for a Result, "Some"/"None" for an Option and "Panic" for a  *)
(* call that unwinds.  A 32-bit float is its bit pattern, held as two       *)
(* 16-bit halves, except in the ranking, where only the order of the values*)
(* matters and a float is an integer or NaN.                               *)
(***************************************************************************)
EXTENDS Integers, Sequences, FiniteSets, TLC

VARIABLES
    view,       \* to_f32: the TensorView handed to the converter
    f32out,     \* to_f32: what the call produced
    id2label,   \* get_label / ranking: Config.id2label
    classIdx,   \* get_label: the class index asked for
    label,      \* get_label: what get_label and the driver produced
    probs,      \* ranking: the probability vector of one forward pass
    outputs,    \* ranking: the sorted (label, probability) pairs
    tensors,    \* the deserialized bundle: key -> TensorView
    bert,       \* the assembled BertClassifier (or the panic that stopped it)
    pc,         \* run: the position in run()/main()
    n,          \* run: args.number
    fs,         \* run: the state of the three input files
    config,     \* run: the parsed Config
    encoded,    \* run: the post-processed encoding of the prompt
    iter,       \* run: the loop counter of `for _ in 0..n`
    fwd,        \* run: what the backend yielded in the latest forward pass
    stdout,     \* run: the lines printed so far
    calls       \* run: the operations performed so far, in order

f32vars == <<view, f32out>>
labelvars == <<id2label, classIdx, label>>
rankvars == <<probs, outputs>>
asmvars == <<tensors, bert>>
runvars == <<pc, n, fs, config, encoded, iter, fwd, stdout, calls>>
vars == <<f32vars, labelvars, rankvars, asmvars, runvars>>

\* The value of a variable that the specification at hand does not use.
Unused == [tag |-> "Unused"]

Panic(msg) == [tag |-> "Panic", msg |-> msg]
Panicked(x) == x.tag = "Panic"
Ok(v) == [tag |-> "Ok", val |-> v]
Err(e) == [tag |-> "Err", err |-> e]
Some(v) == [tag |-> "Some", val |-> v]
None == [tag |-> "None"]

\* Result::unwrap / Option::unwrap; a receiver whose evaluation panicked has
\* unwound already.
unwrap(r) ==
    IF Panicked(r) THEN r
    ELSE IF r.tag \in {"Ok", "Some"} THEN r.val
    ELSE IF r.tag = "Err" THEN Panic(r.err)
    ELSE Panic("unwrap on None")

\* Rust evaluates the arguments of a call left to right, each once: the first
\* one that panics unwinds the call, otherwise the call yields F of the values.
call(args, F(_)) ==
    CHOOSE r \in {IF \E i \in 1..Len(a) : Panicked(a[i])
                  THEN a[CHOOSE i \in 1..Len(a) :
                            /\ Panicked(a[i])
                            /\ \A j \in 1..(i - 1) : ~Panicked(a[j])]
                  ELSE F(a) : a \in {args}} : TRUE

(***************************************************************************)
(* to_f32                                                                  *)
(***************************************************************************)

\* The longest byte span the converter is tried on.
MaxBytes == 8
\* The byte values tried: with them a group of four spells zero, denormals,
\* +Infinity (00 00 80 7F), NaNs (80 00 80 7F) and negative values.
ByteVals == {0, 127, 128}
\* Start addresses of a span: one aligned to 4 and the three that are not.
Ptrs == 4..7
Dtypes == {"F32", "F16"}

ByteSeqs(max) == UNION {[1..k -> ByteVals] : k \in 0..max}

\* The bit pattern of an f32, as its two 16-bit halves.
Bits(b3, b2, b1, b0) == [hi |-> b3 * 256 + b2, lo |-> b1 * 256 + b0]

\* f32::from_le_bytes([b0, b1, b2, b3]): b0 is the least significant byte.
from_le_bytes(b) == Bits(b[4], b[3], b[2], b[1])

\* The k-th f32 (from 0) of `len` read through a *const f32 that points at
\* the first byte of v.  The targets of the crate are little-endian: the byte
\* at the lowest address is the least significant one.
from_raw_parts(v, len) ==
    [k \in 1..len |->
        [lo |-> v[4 * (k - 1) + 1] + v[4 * (k - 1) + 2] * 256,
         hi |-> v[4 * (k - 1) + 3] + v[4 * (k - 1) + 4] * 256]]

\* The copying loop of the misaligned path, i counting from 0 as in the code;
\* v[i + j] past the end of the slice is an index panic.
RECURSIVE copy_loop(_, _, _)
copy_loop(v, i, c) ==
    IF i < Len(v)
    THEN IF i + 3 >= Len(v)
         THEN Panic("index out of bounds")
         ELSE copy_loop(v, i + 4,
                        Append(c, from_le_bytes(<<v[i + 1], v[i + 2], v[i + 3], v[i + 4]>>)))
    ELSE [tag |-> "Owned", vals |-> c]

\* A copying loop that reads each group most significant byte first.
to_f32_big_endian(v) ==
    IF v.dtype # "F32"
    THEN Panic("assert_eq dtype")
    ELSE IF v.ptr % 4 = 0
         THEN [tag |-> "Borrowed", vals |-> from_raw_parts(v.data, Len(v.data) \div 4)]
         ELSE [tag |-> "Owned",
               vals |-> [k \in 1..(Len(v.data) \div 4) |->
                            Bits(v.data[4 * k - 3], v.data[4 * k - 2],
                                 v.data[4 * k - 1], v.data[4 * k])]]

to_f32(v) ==
    IF v.dtype # "F32"
    THEN Panic("assert_eq dtype")
    ELSE IF v.ptr % 4 = 0
         THEN [tag |-> "Borrowed", vals |-> from_raw_parts(v.data, Len(v.data) \div 4)]
         ELSE copy_loop(v.data, 0, <<>>)

ToF32 ==
    /\ f32out = Unused
    /\ f32out' = to_f32(view)
    /\ UNCHANGED view

(***************************************************************************)
(* get_label and the label the driver prints                               *)
(***************************************************************************)

\* The largest class index the lookup is tried on.
MaxClassIdx == 10
\* Keys and values of the id2label maps tried: decimal strings, strings with
\* a leading zero, two-digit strings.
LabelKeys == {"0", "1", "2", "01", "10", "11"}
LabelVals == {"neg", "pos"}
LabelMaps == UNION {[ks -> LabelVals] : ks \in SUBSET LabelKeys}

Digits == <<"0", "1", "2", "3", "4", "5", "6", "7", "8", "9">>

\* format!("{}", i) of a usize: the decimal digits, no sign, no leading zero.
RECURSIVE format_usize(_)
format_usize(i) ==
    IF i < 10 THEN Digits[i + 1]
    ELSE format_usize(i \div 10) \o Digits[(i % 10) + 1]

\* Config::id2label: Option<HashMap>::as_ref
Config_id2label(cfg) == cfg.id2label

\* A lookup that takes class indices to count from one.
get_label_one_based(map, i) ==
    IF map.tag = "None"
    THEN None
    ELSE IF format_usize(i + 1) \in DOMAIN map.val
         THEN Some(map.val[format_usize(i + 1)])
         ELSE None

get_label(map, i) ==
    IF map.tag = "None"
    THEN None
    ELSE IF format_usize(i) \in DOMAIN map.val
         THEN Some(map.val[format_usize(i)])
         ELSE None

\* get_label(id2label, i).unwrap_or(format!("LABEL_{}", i))
label_or_placeholder(map, i) ==
    LET got == get_label(map, i)
    IN  IF got.tag = "Some" THEN got.val ELSE "LABEL_" \o format_usize(i)

ResolveLabel ==
    /\ label = Unused
    /\ label' = [tag |-> "Label",
                 got |-> get_label(id2label, classIdx),
                 shown |-> label_or_placeholder(id2label, classIdx)]
    /\ UNCHANGED <<id2label, classIdx>>

(***************************************************************************)
(* The ranking of one forward pass's probabilities                         *)
(***************************************************************************)

\* The largest number of classes of a probability vector.
MaxClasses == 3
\* A float of the ranking: an integer standing for its place in the order of
\* the floats, or NaN, which partial_cmp orders against nothing.
Float(x) == [nan |-> FALSE, v |-> x]
NaN == [nan |-> TRUE, v |-> 0]
ProbVals == {Float(1), Float(2), Float(5), NaN}
ProbVecs(max) == UNION {[1..c -> ProbVals] : c \in 1..max}

\* The id2label maps the ranking is tried with: none, one naming the three
\* classes of the example, one naming only class 1.
RankMaps ==
    {None,
     Some([k \in {"0", "1", "2"} |->
             IF k = "0" THEN "neg" ELSE IF k = "1" THEN "pos" ELSE "neu"]),
     Some([k \in {"1"} |-> "pos"])}

\* f32::partial_cmp
partial_cmp(a, b) ==
    IF a.nan \/ b.nan THEN None
    ELSE IF a.v < b.v THEN Some([tag |-> "Less"])
    ELSE IF a.v > b.v THEN Some([tag |-> "Greater"])
    ELSE Some([tag |-> "Equal"])

\* The closure of sort_by: |a, b| b.1.partial_cmp(&a.1).unwrap()
sort_cmp(a, b) == unwrap(partial_cmp(b.p, a.p))

\* One insertion of the stable sort: x moves left past every y the closure
\* orders after it; a closure that panics unwinds the sort.
RECURSIVE insert_sorted(_, _)
insert_sorted(s, x) ==
    IF s = <<>> THEN [tag |-> "Vec", items |-> <<x>>]
    ELSE LET y == s[Len(s)]
             c == sort_cmp(x, y)
         IN  IF Panicked(c) THEN c
             ELSE IF c.tag = "Less"
                  THEN LET rest == insert_sorted(SubSeq(s, 1, Len(s) - 1), x)
                       IN  IF Panicked(rest) THEN rest
                           ELSE [tag |-> "Vec", items |-> Append(rest.items, y)]
                  ELSE [tag |-> "Vec", items |-> Append(s, x)]

\* slice::sort_by: stable; no call of the closure on fewer than two elements.
RECURSIVE sort_by(_, _)
sort_by(v, k) ==
    IF k = 0 THEN [tag |-> "Vec", items |-> <<>>]
    ELSE LET front == sort_by(v, k - 1)
         IN  IF Panicked(front) THEN front ELSE insert_sorted(front.items, v[k])

\* probs.iter().enumerate().map(|(i, &p)| (label of i, p)).collect()
labelled(ps, map) ==
    [k \in 1..Len(ps) |-> [l |-> label_or_placeholder(map, k - 1), p |-> ps[k]]]

\* The Vec that `println!("Probs {:?}", outputs)` prints, or the panic of the sort.
ranked(ps, map) == sort_by(labelled(ps, map), Len(ps))

Rank ==
    /\ outputs = Unused
    /\ outputs' = ranked(probs, id2label)
    /\ UNCHANGED <<probs, id2label>>

(***************************************************************************)
(* The assembler: the from_tensors family                                  *)
(***************************************************************************)

\* (0..12) of BertEncoder::from_tensors
NumLayers == 12

\* SafeTensors::tensor(name): the view under the key, or TensorNotFound.
tensor(ts, name) ==
    IF name \in DOMAIN ts THEN Ok(ts[name]) ELSE Err("TensorNotFound " \o name)

\* to_tensor: the shape and the converted data handed to Tensor::from_cpu.
\* The views of a deserialized bundle hold as many bytes as their shape and
\* dtype ask for, so Tensor::from_cpu does not refuse them.
to_tensor(v) ==
    IF Panicked(v) THEN v
    ELSE LET data == to_f32(v)
         IN  IF Panicked(data) THEN data
             ELSE Ok([tag |-> "Tensor", shape |-> v.shape, data |-> data.vals])

linear_from(weights, bias) ==
    call(<<unwrap(to_tensor(weights)), unwrap(to_tensor(bias))>>,
         LAMBDA a : [tag |-> "Linear", weight |-> a[1], bias |-> a[2]])

linear_from_prefix(prefix, ts) ==
    call(<<unwrap(tensor(ts, prefix \o ".weight")), unwrap(tensor(ts, prefix \o ".bias"))>>,
         LAMBDA a : linear_from(a[1], a[2]))

embedding_from(weights) ==
    call(<<unwrap(to_tensor(weights))>>, LAMBDA a : [tag |-> "Embedding", weight |-> a[1]])

\* LayerNorm::new(weight, bias, epsilon)
LayerNorm_new(a) ==
    [tag |-> "LayerNorm", weight |-> a[1], bias |-> a[2], epsilon |-> "1e-5"]

\* A legacy branch that takes beta for the weight and gamma for the bias.
layer_norm_from_prefix_swapped(prefix, ts) ==
    IF tensor(ts, prefix \o ".weight").tag = "Ok" /\ tensor(ts, prefix \o ".bias").tag = "Ok"
    THEN call(<<unwrap(to_tensor(ts[prefix \o ".weight"])),
                unwrap(to_tensor(ts[prefix \o ".bias"]))>>, LayerNorm_new)
    ELSE call(<<unwrap(to_tensor(unwrap(tensor(ts, prefix \o ".beta")))),
                unwrap(to_tensor(unwrap(tensor(ts, prefix \o ".gamma"))))>>, LayerNorm_new)

\* A lookup that takes the modern weight as soon as it is there, and the bias
\* from wherever one is found.
layer_norm_from_prefix_weight_only(prefix, ts) ==
    IF tensor(ts, prefix \o ".weight").tag = "Ok"
    THEN call(<<unwrap(to_tensor(ts[prefix \o ".weight"])),
                unwrap(to_tensor(unwrap(IF tensor(ts, prefix \o ".bias").tag = "Ok"
                                        THEN tensor(ts, prefix \o ".bias")
                                        ELSE tensor(ts, prefix \o ".beta"))))>>, LayerNorm_new)
    ELSE call(<<unwrap(to_tensor(unwrap(tensor(ts, prefix \o ".gamma")))),
                unwrap(to_tensor(unwrap(tensor(ts, prefix \o ".beta"))))>>, LayerNorm_new)

\* if let (Ok(weight), Ok(bias)) = (tensor(".weight"), tensor(".bias")) takes
\* the modern pair; else tensor(".gamma").unwrap() and tensor(".beta").unwrap().
layer_norm_from_prefix(prefix, ts) ==
    IF tensor(ts, prefix \o ".weight").tag = "Ok" /\ tensor(ts, prefix \o ".bias").tag = "Ok"
    THEN call(<<unwrap(to_tensor(ts[prefix \o ".weight"])),
                unwrap(to_tensor(ts[prefix \o ".bias"]))>>, LayerNorm_new)
    ELSE call(<<unwrap(to_tensor(unwrap(tensor(ts, prefix \o ".gamma")))),
                unwrap(to_tensor(unwrap(tensor(ts, prefix \o ".beta"))))>>, LayerNorm_new)

\* BertAttention::new leaves the head count to set_num_heads: 0 until then.
bert_attention_from_tensors(index, ts) ==
    call(<<linear_from_prefix("bert.encoder.layer." \o format_usize(index)
                                \o ".attention.self.query", ts),
           linear_from_prefix("bert.encoder.layer." \o format_usize(index)
                                \o ".attention.self.key", ts),
           linear_from_prefix("bert.encoder.layer." \o format_usize(index)
                                \o ".attention.self.value", ts),
           linear_from_prefix("bert.encoder.layer." \o format_usize(index)
                                \o ".attention.output.dense", ts),
           layer_norm_from_prefix("bert.encoder.layer." \o format_usize(index)
                                    \o ".attention.output.LayerNorm", ts)>>,
         LAMBDA a : [tag |-> "BertAttention", query |-> a[1], key |-> a[2], value |-> a[3],
                     output |-> a[4], output_ln |-> a[5], num_heads |-> 0])

bert_mlp_from_tensors(index, ts) ==
    call(<<linear_from_prefix("bert.encoder.layer." \o format_usize(index)
                                \o ".intermediate.dense", ts),
           linear_from_prefix("bert.encoder.layer." \o format_usize(index)
                                \o ".output.dense", ts),
           layer_norm_from_prefix("bert.encoder.layer." \o format_usize(index)
                                    \o ".output.LayerNorm", ts)>>,
         LAMBDA a : [tag |-> "Mlp", intermediate |-> a[1], output |-> a[2],
                     output_ln |-> a[3]])

bert_layer_from_tensors(index, ts) ==
    call(<<bert_attention_from_tensors(index, ts), bert_mlp_from_tensors(index, ts)>>,
         LAMBDA a : [tag |-> "BertLayer", attention |-> a[1], mlp |-> a[2]])

\* An encoder that counts its layers from 1: (1..12).
BertEncoder_from_tensors_one_based(ts) ==
    call([k \in 1..(NumLayers - 1) |-> bert_layer_from_tensors(k, ts)],
         LAMBDA a : [tag |-> "BertEncoder", layers |-> a])

\* (0..12).map(|i| bert_layer_from_tensors(i, ..)).collect(): layers[k] of the
\* model is the layer of index k - 1.
BertEncoder_from_tensors(ts) ==
    call([k \in 1..NumLayers |-> bert_layer_from_tensors(k - 1, ts)],
         LAMBDA a : [tag |-> "BertEncoder", layers |-> a])

BertEmbeddings_from_tensors(ts) ==
    call(<<embedding_from(unwrap(tensor(ts, "bert.embeddings.word_embeddings.weight"))),
           embedding_from(unwrap(tensor(ts, "bert.embeddings.position_embeddings.weight"))),
           embedding_from(unwrap(tensor(ts, "bert.embeddings.token_type_embeddings.weight"))),
           layer_norm_from_prefix("bert.embeddings.LayerNorm", ts)>>,
         LAMBDA a : [tag |-> "BertEmbeddings", input_embeddings |-> a[1],
                     position_embeddings |-> a[2], type_embeddings |-> a[3],
                     layer_norm |-> a[4]])

Bert_from_tensors(ts) ==
    call(<<BertEmbeddings_from_tensors(ts), BertEncoder_from_tensors(ts)>>,
         LAMBDA a : [tag |-> "Bert", embeddings |-> a[1], encoder |-> a[2]])

\* A pooler that does without its bias when the bundle has none.
BertPooler_from_tensors_lenient(ts) ==
    IF tensor(ts, "bert.pooler.dense.bias").tag = "Ok"
    THEN call(<<linear_from(unwrap(tensor(ts, "bert.pooler.dense.weight")),
                            unwrap(tensor(ts, "bert.pooler.dense.bias")))>>,
              LAMBDA a : [tag |-> "BertPooler", pooler |-> a[1]])
    ELSE call(<<embedding_from(unwrap(tensor(ts, "bert.pooler.dense.weight")))>>,
              LAMBDA a : [tag |-> "BertPooler", pooler |-> a[1]])

BertPooler_from_tensors(ts) ==
    call(<<call(<<unwrap(tensor(ts, "bert.pooler.dense.weight")),
                  unwrap(tensor(ts, "bert.pooler.dense.bias"))>>,
                LAMBDA a : linear_from(a[1], a[2]))>>,
         LAMBDA a : [tag |-> "BertPooler", pooler |-> a[1]])

\* The head of BertClassifier::from_tensors: the modern pair when both of its
\* keys are there, else the legacy pair, each key unwrapped.
classifier_head(ts) ==
    IF tensor(ts, "classifier.weight").tag = "Ok" /\ tensor(ts, "classifier.bias").tag = "Ok"
    THEN linear_from(ts["classifier.weight"], ts["classifier.bias"])
    ELSE call(<<unwrap(tensor(ts, "cls.seq_relationship.weight")),
                unwrap(tensor(ts, "cls.seq_relationship.bias"))>>,
              LAMBDA a : linear_from(a[1], a[2]))

\* BertClassifier::from_tensors: the pooler, then the encoder stack, then the
\* head; Self::new(bert, pooler, classifier).
BertClassifier_from_tensors(ts) ==
    call(<<BertPooler_from_tensors(ts), Bert_from_tensors(ts), classifier_head(ts)>>,
         LAMBDA a : [tag |-> "BertClassifier", bert |-> a[2], pooler |-> a[1],
                     classifier |-> a[3]])

(***************************************************************************)
(* The bundles the assembler is tried on                                   *)
(***************************************************************************)

\* The decimal spellings of the layer indices, written out.
IndexStr == <<"0", "1", "2", "3", "4", "5", "6", "7", "8", "9", "10", "11">>

LayerKey(i, suffix) == "bert.encoder.layer." \o IndexStr[i + 1] \o "." \o suffix

\* The dense tensors of one layer: one spelling each.
LayerPlainSuffixes ==
    {"attention.self.query.weight", "attention.self.query.bias",
     "attention.self.key.weight", "attention.self.key.bias",
     "attention.self.value.weight", "attention.self.value.bias",
     "attention.output.dense.weight", "attention.output.dense.bias",
     "intermediate.dense.weight", "intermediate.dense.bias",
     "output.dense.weight", "output.dense.bias"}

\* The tensors with one spelling: embeddings, pooler, the layers' dense ones.
PlainKeys ==
    {"bert.embeddings.word_embeddings.weight",
     "bert.embeddings.position_embeddings.weight",
     "bert.embeddings.token_type_embeddings.weight",
     "bert.pooler.dense.weight", "bert.pooler.dense.bias"}
    \cup {LayerKey(i, sfx) : i \in 0..(NumLayers - 1), sfx \in LayerPlainSuffixes}

\* A site is a module looked up under two conventions: its place in the
\* model and its four keys (modern weight/bias, legacy weight/bias).
LNSite(kind, idx, prefix) ==
    [kind |-> kind, idx |-> idx,
     mw |-> prefix \o ".weight", mb |-> prefix \o ".bias",
     lw |-> prefix \o ".gamma", lb |-> prefix \o ".beta"]

HeadSite ==
    [kind |-> "head", idx |-> 0,
     mw |-> "classifier.weight", mb |-> "classifier.bias",
     lw |-> "cls.seq_relationship.weight", lb |-> "cls.seq_relationship.bias"]

LNSites ==
    {LNSite("emb", 0, "bert.embeddings.LayerNorm")}
    \cup {LNSite("att", i, "bert.encoder.layer." \o IndexStr[i + 1] \o ".attention.output.LayerNorm")
            : i \in 0..(NumLayers - 1)}
    \cup {LNSite("mlp", i, "bert.encoder.layer." \o IndexStr[i + 1] \o ".output.LayerNorm")
            : i \in 0..(NumLayers - 1)}

Sites == LNSites \cup {HeadSite}

Slots == {"mw", "mb", "lw", "lb"}
SlotKeys(site, slots) == {site[sl] : sl \in slots}

\* The module a site stands for in an assembled model.
ModuleAt(m, site) ==
    IF site.kind = "head" THEN m.classifier
    ELSE IF site.kind = "emb" THEN m.bert.embeddings.layer_norm
    ELSE IF site.kind = "att" THEN m.bert.encoder.layers[site.idx + 1].attention.output_ln
    ELSE m.bert.encoder.layers[site.idx + 1].mlp.output_ln

\* The keys of layer i in the key space of a bundle.
LayerKeys(i) ==
    {LayerKey(i, sfx) : sfx \in LayerPlainSuffixes}
    \cup UNION {SlotKeys(s, Slots) : s \in {t \in LNSites : t.kind # "emb" /\ t.idx = i}}

AllKeySet == PlainKeys \cup UNION {SlotKeys(s, Slots) : s \in Sites}

\* The keys in one fixed order: the global ones, then the layers' in order.
GlobalKeySeq ==
    <<"bert.embeddings.word_embeddings.weight",
      "bert.embeddings.position_embeddings.weight",
      "bert.embeddings.token_type_embeddings.weight",
      "bert.embeddings.LayerNorm.weight", "bert.embeddings.LayerNorm.bias",
      "bert.embeddings.LayerNorm.gamma", "bert.embeddings.LayerNorm.beta",
      "bert.pooler.dense.weight", "bert.pooler.dense.bias",
      "classifier.weight", "classifier.bias",
      "cls.seq_relationship.weight", "cls.seq_relationship.bias">>

LayerSuffixSeq ==
    <<"attention.self.query.weight", "attention.self.query.bias",
      "attention.self.key.weight", "attention.self.key.bias",
      "attention.self.value.weight", "attention.self.value.bias",
      "attention.output.dense.weight", "attention.output.dense.bias",
      "attention.output.LayerNorm.weight", "attention.output.LayerNorm.bias",
      "attention.output.LayerNorm.gamma", "attention.output.LayerNorm.beta",
      "intermediate.dense.weight", "intermediate.dense.bias",
      "output.dense.weight", "output.dense.bias",
      "output.LayerNorm.weight", "output.LayerNorm.bias",
      "output.LayerNorm.gamma", "output.LayerNorm.beta">>

AllKeys ==
    GlobalKeySeq
    \o [m \in 1..(NumLayers * Len(LayerSuffixSeq)) |->
          LayerKey((m - 1) \div Len(LayerSuffixSeq),
                   LayerSuffixSeq[((m - 1) % Len(LayerSuffixSeq)) + 1])]

\* A number for every key: the bytes of its tensor spell it, so that no two
\* keys of a bundle hold the same value.
KeyNum ==
    CHOOSE f \in {[key \in {ks[j] : j \in 1..Len(ks)} |->
                     CHOOSE j \in 1..Len(ks) : ks[j] = key] : ks \in {AllKeys}} : TRUE

\* The view of a key: one F32 value, at an offset of the mapped file that is
\* aligned for one key in four.
ViewOf(num) ==
    [tag |-> "View", dtype |-> "F32", ptr |-> 4 + (num % 4), shape |-> <<1>>,
     data |-> <<num % 256, num \div 256, 0, 127>>]

Bundle(keys, num) == [key \in keys |-> ViewOf(num[key])]

\* The conventions of a complete bundle: every site modern, every site
\* legacy, LayerNorms legacy with a modern head, every site under both.
Convs == {"modern", "legacy", "mixed", "both"}
ExactConvs == {"modern", "legacy", "mixed"}

ConvSlots(conv, site) ==
    IF conv = "both" THEN Slots
    ELSE IF conv = "modern" \/ (conv = "mixed" /\ site.kind = "head") THEN {"mw", "mb"}
    ELSE {"lw", "lb"}

BaseKeys(conv) == PlainKeys \cup UNION {SlotKeys(s, ConvSlots(conv, s)) : s \in Sites}

\* A complete bundle, a complete bundle less one key, a complete bundle with
\* any subset of the four keys at one site, a complete bundle with one tensor
\* of another dtype.
AsmBundles ==
    UNION {{Bundle(BaseKeys(c), num) : c \in Convs}
           \cup UNION {{Bundle(BaseKeys(c) \ {key}, num) : key \in BaseKeys(c)} : c \in Convs}
           \cup UNION {{Bundle((BaseKeys(c) \ SlotKeys(s, Slots)) \cup SlotKeys(s, sub), num)
                          : s \in Sites, sub \in SUBSET Slots} : c \in ExactConvs}
           \cup {[Bundle(BaseKeys("modern"), num) EXCEPT ![key].dtype = "F16"]
                   : key \in BaseKeys("modern")}
           : num \in {KeyNum}}

Assemble ==
    /\ bert = Unused
    /\ bert' = BertClassifier_from_tensors(tensors)
    /\ UNCHANGED tensors

(***************************************************************************)
(* The specifications of the pure parts: the inputs are drawn by the       *)
(* initial condition, the one action applies the function.  A variable the *)
(* specification does not use stays Unused.                                *)
(***************************************************************************)

InitF32 ==
    /\ view \in [tag : {"View"}, dtype : Dtypes, ptr : Ptrs, data : ByteSeqs(MaxBytes)]
    /\ f32out = Unused
    /\ id2label = Unused /\ classIdx = Unused /\ label = Unused
    /\ probs = Unused /\ outputs = Unused
    /\ tensors = Unused /\ bert = Unused
    /\ pc = Unused /\ n = Unused /\ fs = Unused /\ config = Unused /\ encoded = Unused
    /\ iter = Unused /\ fwd = Unused /\ stdout = Unused /\ calls = Unused

NextF32 == ToF32 /\ UNCHANGED <<labelvars, rankvars, asmvars, runvars>>

SpecF32 == InitF32 /\ [][NextF32]_vars

InitLabel ==
    /\ id2label \in {None} \cup {Some(m) : m \in LabelMaps}
    /\ classIdx \in 0..MaxClassIdx
    /\ label = Unused
    /\ view = Unused /\ f32out = Unused
    /\ probs = Unused /\ outputs = Unused
    /\ tensors = Unused /\ bert = Unused
    /\ pc = Unused /\ n = Unused /\ fs = Unused /\ config = Unused /\ encoded = Unused
    /\ iter = Unused /\ fwd = Unused /\ stdout = Unused /\ calls = Unused

NextLabel == ResolveLabel /\ UNCHANGED <<f32vars, rankvars, asmvars, runvars>>

SpecLabel == InitLabel /\ [][NextLabel]_vars

InitRank ==
    /\ probs \in ProbVecs(MaxClasses)
    /\ id2label \in RankMaps
    /\ outputs = Unused
    /\ view = Unused /\ f32out = Unused
    /\ classIdx = Unused /\ label = Unused
    /\ tensors = Unused /\ bert = Unused
    /\ pc = Unused /\ n = Unused /\ fs = Unused /\ config = Unused /\ encoded = Unused
    /\ iter = Unused /\ fwd = Unused /\ stdout = Unused /\ calls = Unused

NextRank == Rank /\ UNCHANGED <<f32vars, classIdx, label, asmvars, runvars>>

SpecRank == InitRank /\ [][NextRank]_vars

InitAsm ==
    /\ tensors \in AsmBundles
    /\ bert = Unused
    /\ view = Unused /\ f32out = Unused
    /\ id2label = Unused /\ classIdx = Unused /\ label = Unused
    /\ probs = Unused /\ outputs = Unused
    /\ pc = Unused /\ n = Unused /\ fs = Unused /\ config = Unused /\ encoded = Unused
    /\ iter = Unused /\ fwd = Unused /\ stdout = Unused /\ calls = Unused

NextAsm == Assemble /\ UNCHANGED <<f32vars, labelvars, rankvars, runvars>>

SpecAsm == InitAsm /\ [][NextAsm]_vars

(***************************************************************************)
(* The driver: run() and main()                                            *)
(***************************************************************************)

\* The largest repeat count (args.number is a u8) the driver is tried with.
MaxN == 3
\* The longest encoding of the prompt.
MaxTokens == 2

Artifacts == {"model", "tokenizer", "config"}
\* A file is absent, there and well-formed, or there and not loadable.
FileStates == {"missing", "ok", "bad"}

\* The URL a message gives for a file of the model repository.
Url(model_id, file) == "https://huggingface.co/" \o model_id \o "/resolve/main/" \o file

\* The three messages of run(), each with the URLs of its curl commands.
ModelNotFound ==
    [tag |-> "NotFound", what |-> "model",
     curl |-> {Url("Narsil/finbert", "model.safetensors"),
               Url("Narsil/finbert", "tokenizer.json"),
               Url("Narsil/finbert", "config.json")}]
TokenizerNotFound ==
    [tag |-> "NotFound", what |-> "tokenizer",
     curl |-> {Url("Narsil/finbert", "tokenizer.json")}]
ConfigNotFound ==
    [tag |-> "NotFound", what |-> "config",
     curl |-> {"https://huggingface.co//resolve/main/config.json"}]

Line(tag) == [tag |-> tag]
Call(op) == [op |-> op]

\* The bundles a well-formed model file deserializes to: complete under the
\* modern and under the legacy convention, and one without a tensor of layer 7.
RunBundles ==
    UNION {{Bundle(BaseKeys("modern"), num),
            Bundle(BaseKeys("legacy"), num),
            Bundle(BaseKeys("mixed") \ {"bert.encoder.layer.7.output.dense.bias"}, num)}
           : num \in {KeyNum}}

\* The Configs a well-formed config file parses to.
Configs == [tag : {"Config"}, num_attention_heads : {2, 12}, id2label : RankMaps]

\* The encoding of a prompt of len tokens after post-processing.
Encoding(len) ==
    [tag |-> "Encoding", ids |-> [k \in 1..len |-> 100 + k], type_ids |-> [k \in 1..len |-> 0]]
Encodings == {Encoding(len) : len \in 0..MaxTokens}

\* What bert.run(..) followed by cpu_data() yields in one pass: an error, or
\* the probabilities.
FwdOutcomes ==
    {Err("SmeltError"),
     Ok(<<Float(2), Float(5), Float(1)>>), Ok(<<Float(1), Float(1)>>),
     Ok(<<NaN, Float(1)>>), Ok(<<Float(5)>>)}

\* BertClassifier::set_num_heads: the head count of every attention module.
set_num_heads(m, heads) ==
    [m EXCEPT !.bert.encoder.layers =
        [k \in DOMAIN @ |-> [@[k] EXCEPT !.attention.num_heads = heads]]]

\* The head counts a model runs with.
num_heads_of(m) ==
    {m.bert.encoder.layers[k].attention.num_heads : k \in DOMAIN m.bert.encoder.layers}

\* A loop that runs once more than asked: 0..=n.
in_range_inclusive(i, count) == i <= count

\* for _ in 0..n
in_range(i, count) == i < count

\* A panic, or an Err that run() returns to the unwrap of main().
Abort(at) ==
    /\ pc' = "aborted"
    /\ calls' = Append(calls, [op |-> "abort", at |-> at])

InitRun ==
    /\ pc = "model_exists"
    /\ n \in 0..MaxN
    /\ fs \in [Artifacts -> FileStates]
    /\ tensors = Unused /\ bert = Unused /\ config = Unused /\ encoded = Unused
    /\ fwd = Unused
    /\ iter = 0
    /\ stdout = <<>>
    /\ calls = <<>>
    /\ view = Unused /\ f32out = Unused
    /\ id2label = Unused /\ classIdx = Unused /\ label = Unused
    /\ probs = Unused /\ outputs = Unused

\* if !Path::new(&filename).exists() { println!(..) }     (model)
ModelExists ==
    /\ pc = "model_exists"
    /\ stdout' = IF fs["model"] = "missing" THEN Append(stdout, ModelNotFound) ELSE stdout
    /\ pc' = "model_open"
    /\ UNCHANGED <<n, fs, tensors, bert, config, encoded, iter, fwd, calls>>

\* File::open(filename)?, map(&file)?, SafeTensors::deserialize(&buffer)?
ModelOpen ==
    /\ pc = "model_open"
    /\ \/ /\ fs["model"] = "missing"
          /\ Abort("File::open")
          /\ UNCHANGED <<tensors, stdout>>
       \/ /\ fs["model"] = "bad"
          /\ pc' = "aborted"
          /\ calls' = calls \o <<Call("File::open"), Call("mmap"),
                                 [op |-> "abort", at |-> "SafeTensors::deserialize"]>>
          /\ UNCHANGED <<tensors, stdout>>
       \/ /\ fs["model"] = "ok"
          /\ tensors' \in RunBundles
          /\ calls' = calls \o <<Call("File::open"), Call("mmap"), Call("deserialize")>>
          /\ stdout' = Append(stdout, Line("Safetensors"))
          /\ pc' = "tokenizer_exists"
    /\ UNCHANGED <<n, fs, bert, config, encoded, iter, fwd>>

\* if !Path::new(&filename).exists() { println!(..) }     (tokenizer)
TokenizerExists ==
    /\ pc = "tokenizer_exists"
    /\ stdout' = IF fs["tokenizer"] = "missing" THEN Append(stdout, TokenizerNotFound)
                 ELSE stdout
    /\ pc' = "tokenizer_load"
    /\ UNCHANGED <<n, fs, tensors, bert, config, encoded, iter, fwd, calls>>

\* Tokenizer::from_file(filename).unwrap()
TokenizerLoad ==
    /\ pc = "tokenizer_load"
    /\ IF fs["tokenizer"] = "ok"
       THEN /\ calls' = Append(calls, Call("Tokenizer::from_file"))
            /\ stdout' = Append(stdout, Line("Tokenizer"))
            /\ pc' = "config_exists"
       ELSE /\ Abort("Tokenizer::from_file")
            /\ UNCHANGED stdout
    /\ UNCHANGED <<n, fs, tensors, bert, config, encoded, iter, fwd>>

\* if !Path::new(&filename).exists() { println!(..) }     (config)
ConfigExists ==
    /\ pc = "config_exists"
    /\ stdout' = IF fs["config"] = "missing" THEN Append(stdout, ConfigNotFound) ELSE stdout
    /\ pc' = "config_load"
    /\ UNCHANGED <<n, fs, tensors, bert, config, encoded, iter, fwd, calls>>

\* read_to_string(filename).expect(..), serde_json::from_str(..).expect(..)
ConfigLoad ==
    /\ pc = "config_load"
    /\ \/ /\ fs["config"] = "missing"
          /\ Abort("read_to_string")
          /\ UNCHANGED config
       \/ /\ fs["config"] = "bad"
          /\ pc' = "aborted"
          /\ calls' = calls \o <<Call("read_to_string"),
                                 [op |-> "abort", at |-> "serde_json::from_str"]>>
          /\ UNCHANGED config
       \/ /\ fs["config"] = "ok"
          /\ config' \in Configs
          /\ calls' = calls \o <<Call("read_to_string"), Call("serde_json::from_str")>>
          /\ pc' = "assemble"
    /\ UNCHANGED <<n, fs, tensors, bert, encoded, iter, fwd, stdout>>

\* let mut bert = BertClassifier::from_tensors(&tensors, &device);
AssembleModel ==
    /\ pc = "assemble"
    /\ \E m \in {BertClassifier_from_tensors(tensors)} :
          IF Panicked(m)
          THEN /\ Abort("from_tensors")
               /\ UNCHANGED bert
          ELSE /\ bert' = m
               /\ calls' = Append(calls, Call("from_tensors"))
               /\ pc' = "set_num_heads"
    /\ UNCHANGED <<n, fs, tensors, config, encoded, iter, fwd, stdout>>

\* bert.set_num_heads(config.num_attention_heads); println!("Loaded ..")
SetNumHeads ==
    /\ pc = "set_num_heads"
    /\ bert' = set_num_heads(bert, config.num_attention_heads)
    /\ calls' = Append(calls, [op |-> "set_num_heads", heads |-> config.num_attention_heads])
    /\ stdout' = Append(stdout, Line("Loaded"))
    /\ pc' = "encode"
    /\ UNCHANGED <<n, fs, tensors, config, encoded, iter, fwd>>

\* tokenizer.encode(..).unwrap(), tokenizer.post_process(..).unwrap()
Encode ==
    /\ pc = "encode"
    /\ \/ /\ encoded' \in Encodings
          /\ calls' = calls \o <<Call("encode"), Call("post_process")>>
          /\ stdout' = Append(stdout, Line("Loaded & encoded"))
          /\ pc' = "loop"
       \/ /\ Abort("encode")
          /\ UNCHANGED <<encoded, stdout>>
    /\ UNCHANGED <<n, fs, tensors, bert, config, iter, fwd>>

\* One turn of the loop: the three id vectors, bert.run(..).unwrap(), the
\* labels, the sort, the Probs line.
ForwardPass ==
    /\ pc = "loop"
    /\ in_range(iter, n)
    /\ fwd' \in FwdOutcomes
    /\ \E ranking \in {IF fwd'.tag = "Ok" THEN ranked(fwd'.val, Config_id2label(config))
                       ELSE Panic("bert.run unwrap")} :
          /\ calls' = calls \o
                <<[op |-> "run", input_ids |-> encoded.ids,
                   position_ids |-> [k \in 1..Len(encoded.ids) |-> k - 1],
                   type_ids |-> encoded.type_ids, heads |-> num_heads_of(bert)]>>
                \o (IF Panicked(ranking) THEN <<[op |-> "abort", at |-> ranking.msg]>>
                    ELSE <<>>)
          /\ stdout' = Append(stdout, Line("Running"))
                \o (IF Panicked(ranking) THEN <<>>
                    ELSE <<[tag |-> "Probs", outputs |-> ranking.items], Line("Inference")>>)
          /\ pc' = IF Panicked(ranking) THEN "aborted" ELSE "loop"
          /\ iter' = IF Panicked(ranking) THEN iter ELSE iter + 1
    /\ UNCHANGED <<n, fs, tensors, bert, config, encoded>>

\* println!("Total Inference ..."); Ok(()), which main() unwraps.
Finish ==
    /\ pc = "loop"
    /\ ~in_range(iter, n)
    /\ stdout' = Append(stdout, Line("Total Inference"))
    /\ pc' = "done"
    /\ UNCHANGED <<n, fs, tensors, bert, config, encoded, iter, fwd, calls>>

\* The variables of the pure parts, which run() leaves alone.
purevars == <<f32vars, labelvars, rankvars>>

NextRun ==
    \/ ModelExists /\ UNCHANGED purevars
    \/ ModelOpen /\ UNCHANGED purevars
    \/ TokenizerExists /\ UNCHANGED purevars
    \/ TokenizerLoad /\ UNCHANGED purevars
    \/ ConfigExists /\ UNCHANGED purevars
    \/ ConfigLoad /\ UNCHANGED purevars
    \/ AssembleModel /\ UNCHANGED purevars
    \/ SetNumHeads /\ UNCHANGED purevars
    \/ Encode /\ UNCHANGED purevars
    \/ ForwardPass /\ UNCHANGED purevars
    \/ Finish /\ UNCHANGED purevars

SpecRun == InitRun /\ [][NextRun]_vars

(***************************************************************************)
(* Properties of to_f32 (under SpecF32)                                    *)
(***************************************************************************)

\* The little-endian decoding of a byte span: value k (from 1) has bytes
\* 4(k-1)+1 .. 4(k-1)+4 of the span, the first of them the least significant.
LittleEndianDecoding(data) ==
    [k \in 1..(Len(data) \div 4) |->
        [hi |-> data[4 * k] * 256 + data[4 * k - 1],
         lo |-> data[4 * k - 2] * 256 + data[4 * k - 3]]]

\* C1: for an F32 span whose length is a multiple of 4, to_f32 returns the
\* little-endian decoding of the span on the borrowed path and on the copied
\* path, hence the same bit patterns at every start address.
C1_AlignmentEquivalence ==
    (f32out # Unused /\ view.dtype = "F32" /\ Len(view.data) % 4 = 0) =>
        /\ ~Panicked(f32out)
        /\ f32out.tag = (IF view.ptr % 4 = 0 THEN "Borrowed" ELSE "Owned")
        /\ f32out.vals = LittleEndianDecoding(view.data)
        /\ \A p \in Ptrs : to_f32([view EXCEPT !.ptr = p]).vals = f32out.vals

\* C1 witness: the copied path has decoded eight bytes into a NaN pattern
\* (7F80 0080) followed by +Infinity (7F80 0000).
C1_Witness ==
    /\ f32out # Unused
    /\ view.dtype = "F32"
    /\ view.ptr % 4 # 0
    /\ view.data = <<128, 0, 128, 127, 0, 0, 128, 127>>
    /\ f32out.tag = "Owned"
    /\ f32out.vals = <<[hi |-> 32640, lo |-> 128], [hi |-> 32640, lo |-> 0]>>

\* C10: to_f32 returns floor(len/4) floats for an F32 span of any length at
\* any start address, without a panic, and panics on any other dtype.
C10_OutputLength ==
    f32out # Unused =>
        IF view.dtype = "F32"
        THEN /\ ~Panicked(f32out)
             /\ Len(f32out.vals) = Len(view.data) \div 4
        ELSE Panicked(f32out)

(***************************************************************************)
(* Properties of get_label (under SpecLabel)                               *)
(***************************************************************************)

\* C9: get_label returns the mapping's entry for the decimal string of the
\* class index when the mapping exists and has that key, and None otherwise;
\* the driver shows that entry, or LABEL_i when there is no mapping or no
\* entry; neither step panics.
C9_LabelResolution ==
    label # Unused =>
        LET key == IndexStr[classIdx + 1]
            has == id2label.tag = "Some" /\ key \in DOMAIN id2label.val
        IN  /\ label.tag = "Label"
            /\ label.got = (IF has THEN Some(id2label.val[key]) ELSE None)
            /\ label.shown = (IF has THEN id2label.val[key] ELSE "LABEL_" \o key)

\* C9 witness: a mapping with an entry for "01" and "11" but none for "1":
\* class 1 is shown as LABEL_1.
C9_Witness ==
    /\ label # Unused
    /\ classIdx = 1
    /\ id2label.tag = "Some"
    /\ DOMAIN id2label.val = {"01", "11"}
    /\ label.got = None
    /\ label.shown = "LABEL_1"

(***************************************************************************)
(* Properties of the ranking (under SpecRank)                              *)
(***************************************************************************)

\* The pairs are those of the classes, each once, in descending order.
RankedRight(items) ==
    /\ Len(items) = Len(probs)
    /\ \E pi \in [1..Len(probs) -> 1..Len(probs)] :
          /\ \A j, k \in 1..Len(probs) : j # k => pi[j] # pi[k]
          /\ \A k \in 1..Len(probs) :
                items[k] = [l |-> label_or_placeholder(id2label, pi[k] - 1),
                            p |-> probs[pi[k]]]
    /\ \A k \in 1..(Len(items) - 1) :
          /\ ~items[k].p.nan /\ ~items[k + 1].p.nan
          /\ items[k].p.v >= items[k + 1].p.v

\* C5: for every probability vector of a forward pass, what is printed is the
\* C (label, probability) pairs of the classes, sorted descending by
\* probability; [2, 5, 1] under [neg, pos, neu] gives pos, neg, neu.
C5_Ranking ==
    outputs # Unused =>
        /\ ~Panicked(outputs)
        /\ RankedRight(outputs.items)
        /\ (probs = <<Float(2), Float(5), Float(1)>> /\ id2label = Some(
               [k \in {"0", "1", "2"} |->
                   IF k = "0" THEN "neg" ELSE IF k = "1" THEN "pos" ELSE "neu"]))
             => outputs.items = <<[l |-> "pos", p |-> Float(5)],
                                  [l |-> "neg", p |-> Float(2)],
                                  [l |-> "neu", p |-> Float(1)]>>

\* What does hold of the ranking: a vector without NaN, or of one class, is
\* printed ranked as C5 says; the sort panics on any other.
RankingUnlessNaN ==
    outputs # Unused =>
        IF Len(probs) >= 2 /\ \E k \in 1..Len(probs) : probs[k].nan
        THEN Panicked(outputs)
        ELSE ~Panicked(outputs) /\ RankedRight(outputs.items)

(***************************************************************************)
(* Properties of the assembler (under SpecAsm)                             *)
(***************************************************************************)

AllF32(ts) == \A key \in DOMAIN ts : ts[key].dtype = "F32"

HasModern(ts, s) == s.mw \in DOMAIN ts /\ s.mb \in DOMAIN ts
HasLegacy(ts, s) == s.lw \in DOMAIN ts /\ s.lb \in DOMAIN ts

\* Every tensor but those of site s is there, under a whole pair.
CompleteBut(ts, s) ==
    /\ PlainKeys \subseteq DOMAIN ts
    /\ \A t \in Sites \ {s} : HasModern(ts, t) \/ HasLegacy(ts, t)

\* The tensor that the view under a key holds.
TensorAt(ts, key) ==
    [tag |-> "Tensor", shape |-> ts[key].shape, data |-> LittleEndianDecoding(ts[key].data)]

\* C2: a bundle that holds every required tensor under exactly one convention
\* assembles; the same bundle less any one of its tensors does not: the call
\* panics and yields no model.
C2_MissingTensorFatal ==
    bert # Unused =>
        \A c \in ExactConvs :
            /\ (DOMAIN tensors = BaseKeys(c) /\ AllF32(tensors)) => ~Panicked(bert)
            /\ (/\ DOMAIN tensors \subseteq BaseKeys(c)
                /\ Cardinality(BaseKeys(c) \ DOMAIN tensors) = 1) => Panicked(bert)

\* C2 witness: the all-legacy bundle less the beta of the last layer's output
\* LayerNorm has failed to assemble.
C2_Witness ==
    /\ bert # Unused
    /\ DOMAIN tensors = BaseKeys("legacy") \ {"bert.encoder.layer.11.output.LayerNorm.beta"}
    /\ Panicked(bert)

\* The bundle with the legacy pair of site s under its modern keys instead.
Modernized(ts, s) ==
    [key \in (DOMAIN ts \ {s.lw, s.lb}) \cup {s.mw, s.mb} |->
        IF key = s.mw THEN ts[s.lw] ELSE IF key = s.mb THEN ts[s.lb] ELSE ts[key]]

\* C3: where a LayerNorm or the head is exposed only under its legacy pair,
\* assembly succeeds, the module takes gamma (the legacy weight) as weight and
\* beta (the legacy bias) as bias, and it equals the module assembled from the
\* bundle that holds the same values under the modern pair.
C3_FallbackCompleteness ==
    bert # Unused =>
        \A s \in Sites :
            (/\ HasLegacy(tensors, s)
             /\ s.mw \notin DOMAIN tensors /\ s.mb \notin DOMAIN tensors
             /\ CompleteBut(tensors, s) /\ AllF32(tensors))
            => /\ ~Panicked(bert)
               /\ ModuleAt(bert, s).weight = TensorAt(tensors, s.lw)
               /\ ModuleAt(bert, s).bias = TensorAt(tensors, s.lb)
               /\ ModuleAt(bert, s)
                    = ModuleAt(BertClassifier_from_tensors(Modernized(tensors, s)), s)

\* C3 witness: the all-legacy bundle has assembled.
C3_Witness ==
    /\ bert # Unused
    /\ DOMAIN tensors = BaseKeys("legacy")
    /\ ~Panicked(bert)
    /\ ModuleAt(bert, HeadSite).weight = TensorAt(tensors, "cls.seq_relationship.weight")

\* C4: at every site, whatever subset of its four keys is there: both modern
\* keys there, the module is built from the modern pair; else both legacy
\* keys there, from the legacy pair; else assembly panics.  The two tensors
\* are never one of each convention.
C4_LookupPriority ==
    bert # Unused =>
        \A s \in Sites :
            (CompleteBut(tensors, s) /\ AllF32(tensors)) =>
                IF HasModern(tensors, s)
                THEN /\ ~Panicked(bert)
                     /\ ModuleAt(bert, s).weight = TensorAt(tensors, s.mw)
                     /\ ModuleAt(bert, s).bias = TensorAt(tensors, s.mb)
                ELSE IF HasLegacy(tensors, s)
                THEN /\ ~Panicked(bert)
                     /\ ModuleAt(bert, s).weight = TensorAt(tensors, s.lw)
                     /\ ModuleAt(bert, s).bias = TensorAt(tensors, s.lb)
                ELSE Panicked(bert)

\* C4 witness: a LayerNorm with its modern weight, no modern bias and both
\* legacy keys has been built from gamma and beta.
C4_Witness ==
    /\ bert # Unused
    /\ ~Panicked(bert)
    /\ \E s \in LNSites :
          /\ s.mw \in DOMAIN tensors /\ s.mb \notin DOMAIN tensors
          /\ HasLegacy(tensors, s)
          /\ ModuleAt(bert, s).weight = TensorAt(tensors, s.lw)
          /\ ModuleAt(bert, s).bias = TensorAt(tensors, s.lb)

(***************************************************************************)
(* Properties of the driver (under SpecRun)                                *)
(***************************************************************************)

\* The places in calls of the calls of one operation.
OpIdx(op) == {j \in 1..Len(calls) : calls[j].op = op}
RunIdx == OpIdx("run")

\* The sixteen tensors of an assembled layer.
LayerTensors(layer) ==
    UNION {{m.weight, m.bias} :
           m \in {layer.attention.query, layer.attention.key, layer.attention.value,
                  layer.attention.output, layer.attention.output_ln,
                  layer.mlp.intermediate, layer.mlp.output, layer.mlp.output_ln}}

\* C6: an assembled encoder has exactly 12 layers, the layer at position i
\* built from keys of prefix bert.encoder.layer.i only; the head count of the
\* Config is set on the model after from_tensors and before the first forward
\* pass, and every forward pass runs with it.
C6_LayersAndHeads ==
    /\ bert # Unused =>
          /\ Len(bert.bert.encoder.layers) = 12
          /\ \A i \in 0..11 :
                /\ Cardinality(LayerTensors(bert.bert.encoder.layers[i + 1])) = 16
                /\ LayerTensors(bert.bert.encoder.layers[i + 1])
                     \subseteq {TensorAt(tensors, key) : key \in LayerKeys(i) \cap DOMAIN tensors}
    /\ \A j \in RunIdx :
          /\ calls[j].heads = {config.num_attention_heads}
          /\ \E a, b \in 1..(j - 1) :
                /\ a < b
                /\ calls[a].op = "from_tensors"
                /\ calls[b] = [op |-> "set_num_heads", heads |-> config.num_attention_heads]

\* C6 witness: a run on a legacy bundle with 12 heads has finished two passes.
C6_Witness ==
    /\ pc = "done"
    /\ n = 2
    /\ Cardinality(RunIdx) = 2
    /\ config.num_attention_heads = 12
    /\ "bert.encoder.layer.0.output.LayerNorm.gamma" \in DOMAIN tensors
    /\ \A j \in RunIdx : calls[j].heads = {12}

\* The file of an artifact in the model repository, the call that loads it,
\* and the lines printed by the load steps before its own.
FileOf(a) ==
    IF a = "model" THEN "model.safetensors"
    ELSE IF a = "tokenizer" THEN "tokenizer.json" ELSE "config.json"
LoadOf(a) ==
    IF a = "model" THEN "File::open"
    ELSE IF a = "tokenizer" THEN "Tokenizer::from_file" ELSE "read_to_string"
LinesBefore(a) ==
    IF a = "model" THEN {}
    ELSE IF a = "tokenizer" THEN {Line("Safetensors")}
    ELSE {Line("Safetensors"), Line("Tokenizer")}

\* The run has aborted at the load of artifact a, whose file does not exist.
AbortedOnMissing(a) ==
    /\ pc = "aborted"
    /\ fs[a] = "missing"
    /\ calls[Len(calls)] = [op |-> "abort", at |-> LoadOf(a)]

\* The run has aborted on a missing artifact after printing, as its last
\* line, the message for that artifact; no line of a later step precedes it.
InstructedThenAborted(a) ==
    /\ Len(stdout) > 0
    /\ stdout[Len(stdout)].tag = "NotFound"
    /\ stdout[Len(stdout)].what = a
    /\ \A k \in 1..(Len(stdout) - 1) : stdout[k] \in LinesBefore(a)

\* A run does not get past the load of a missing artifact.
StopsAtMissing ==
    /\ fs["model"] = "missing" => pc \in {"model_exists", "model_open", "aborted"}
    /\ (fs["tokenizer"] = "missing" /\ fs["model"] = "ok") =>
          pc \in {"model_exists", "model_open", "tokenizer_exists", "tokenizer_load", "aborted"}
    /\ (fs["config"] = "missing" /\ fs["model"] = "ok" /\ fs["tokenizer"] = "ok") =>
          pc \notin {"assemble", "set_num_heads", "encode", "loop", "done"}

NoProbsOnAbort ==
    pc = "aborted" => \A k \in 1..Len(stdout) : stdout[k].tag # "Probs"

\* C7: a run that finds an input file missing prints the download
\* instructions for that artifact (a curl command for its file in the model
\* repository) and then aborts, the instructions being the last thing printed
\* and no later load step coming before them; a run that aborts on a load or
\* inference error prints no Probs line.
C7_MissingArtifact ==
    /\ \A a \in Artifacts :
          AbortedOnMissing(a) =>
              /\ InstructedThenAborted(a)
              /\ Url("Narsil/finbert", FileOf(a)) \in stdout[Len(stdout)].curl
    /\ StopsAtMissing
    /\ NoProbsOnAbort

\* What does hold of the missing artifacts: C7 but for the URL of the curl
\* command, which the message for the config file gets wrong, and for the
\* Probs lines of the passes before a pass that fails.
MissingArtifactButUrl ==
    /\ \A a \in Artifacts : AbortedOnMissing(a) => InstructedThenAborted(a)
    /\ StopsAtMissing
    /\ (pc = "aborted" /\ Cardinality(RunIdx) <= 1) =>
          \A k \in 1..Len(stdout) : stdout[k].tag # "Probs"

\* Loading is done once, in order, before any forward pass; the passes follow
\* one another and all take the ids of the one encoding.
LoadedOnceThenPasses ==
    /\ \A op \in {"File::open", "mmap", "deserialize", "from_tensors", "set_num_heads",
                  "encode", "post_process"} :
          /\ Cardinality(OpIdx(op)) <= 1
          /\ \A j \in RunIdx : \E a \in OpIdx(op) : a < j
    /\ \A j \in RunIdx :
          /\ calls[j].input_ids = encoded.ids
          /\ calls[j].type_ids = encoded.type_ids
          /\ Len(calls[j].position_ids) = Len(encoded.ids)
          /\ \A k \in 1..Len(encoded.ids) : calls[j].position_ids[k] = k - 1
          /\ \A k \in (j + 1)..Len(calls) : calls[k].op \in {"run", "abort"}

\* C8 as stated, for the runs in which no probability is NaN (those fall to
\* the sort of C5): a run whose loading succeeds loads once, then executes
\* exactly n forward passes on the same ids and terminates after the n-th.
C8_RepeatedInference ==
    (fwd = Unused \/ fwd.tag = "Err" \/ \A k \in DOMAIN fwd.val : ~fwd.val[k].nan) =>
        /\ LoadedOnceThenPasses
        /\ (pc \in {"done", "aborted"} /\ encoded # Unused) =>
              (pc = "done" /\ Cardinality(RunIdx) = n)

\* The passes of a run: never more than n, n of them when the run is done, and
\* a failed pass is the last thing a run does.
PassesUntilFailure ==
    /\ Cardinality(RunIdx) <= n
    /\ pc = "loop" => Cardinality(RunIdx) = iter
    /\ pc = "done" => Cardinality(RunIdx) = n
    /\ (pc = "aborted" /\ RunIdx # {}) =>
          /\ calls[Len(calls)].op = "abort"
          /\ calls[Len(calls) - 1].op = "run"
          /\ fwd.tag = "Err" \/ \E k \in DOMAIN fwd.val : fwd.val[k].nan

\* A step of the loop leaves the bundle, the model, the encoding and the
\* Config as they are.
LoopKeepsModel ==
    pc = "loop" =>
        /\ bert' = bert /\ tensors' = tensors /\ encoded' = encoded /\ config' = config

\* C8, amended: a run whose loading succeeds loads once, then executes forward
\* passes on the same ids, none of which changes the model, until n are done
\* or one fails; it executes exactly n when none fails, and a failed pass
\* aborts the run.
C8_RepeatedInferenceAmended ==
    /\ [](LoadedOnceThenPasses /\ PassesUntilFailure)
    /\ [][LoopKeepsModel]_vars

\* C8 witness: a run with n = 3 has finished its three passes.
C8_Witness ==
    /\ pc = "done"
    /\ n = 3
    /\ Cardinality(RunIdx) = 3
    /\ stdout[Len(stdout)] = Line("Total Inference")

============================================================================
